---- MODULE Spec2Model ----
(***************************************************************************)
(* Delay selection of neurokit2/complexity/optim_complexity_delay.py.      *)
(*                                                                         *)
(* Real numbers are fixed-point integers with Scale units per 1.0; signal  *)
(* samples are plain integers.  Indices into Python arrays are kept        *)
(* 0-based (as the code returns them); TLA+ sequences are 1-based, so the  *)
(* Python element a[k] is a[k + 1] here.                                   *)
(*                                                                         *)
(* Five specifications share the variables:                                *)
(*   Spec          complexity_delay, step by step                          *)
(*   SpecSelect    _embedding_delay_select on drawn score sequences        *)
(*   SpecCC        _embedding_delay_cc_deviation on drawn arguments        *)
(*   SpecMetric    _embedding_delay_metric (Correlation Integral) on drawn *)
(*                 dimension and radius sets                               *)
(*   SpecIntegral  _embedding_delay_cc_integral on drawn arguments         *)
(***************************************************************************)
EXTENDS Integers, Sequences, FiniteSets

VARIABLES pc, args, signal, delay_max, method, algorithm, tau_sequence, metric,
          metric_values, optimal, ret, warned, calls, dimension, delay, r_vals, deviation,
          dimensions, radius, integral

vars == <<pc, args, signal, delay_max, method, algorithm, tau_sequence, metric,
          metric_values, optimal, ret, warned, calls, dimension, delay, r_vals, deviation,
          dimensions, radius, integral>>

(***************************************************************************)
(* Bounds and numeric resolution                                           *)
(***************************************************************************)
\* fixed-point units per 1.0
Scale == 1000
\* longest score sequence drawn for the selector
MaxScoreLen == 5

\* 1 / np.exp(1) in fixed point
InvE == (Scale * 36788) \div 100000
\* relative_height_min=0.1 in fixed point
RelHeightMin == Scale \div 10
\* the slope target of "closest to 40% of the slope", in degrees
SlopeTarget == 40

(***************************************************************************)
(* Array helpers (numpy)                                                   *)
(***************************************************************************)
Abs(x) == IF x < 0 THEN -x ELSE x

Sign(x) == IF x > 0 THEN 1 ELSE IF x < 0 THEN -1 ELSE 0

RECURSIVE SeqSum(_)
SeqSum(s) == IF Len(s) = 0 THEN 0 ELSE s[1] + SeqSum(Tail(s))

\* all sequences over S of length lo..hi
SeqsOf(S, lo, hi) == UNION {[1..n -> S] : n \in lo..hi}

\* np.diff(a): empty for arrays of length <= 1
Diff(a) == [i \in 1..(Len(a) - 1) |-> a[i + 1] - a[i]]

\* -1 * a
Neg(a) == [i \in 1..Len(a) |-> -a[i]]

\* a - c, a new array (the operand is not modified)
SubConst(a, c) == [i \in 1..Len(a) |-> a[i] - c]

\* ascending sequence of the elements of a finite set of integers
RECURSIVE SortedSeq(_)
SortedSeq(S) ==
    IF S = {} THEN <<>>
    ELSE LET m == CHOOSE x \in S : \A y \in S : x <= y
         IN <<m>> \o SortedSeq(S \ {m})

\* np.where(cond)[0]: ascending 0-based indices k of a with P(a[k])
WhereEq(a, c) == SortedSeq({i - 1 : i \in {j \in 1..Len(a) : a[j] = c}})

(***************************************************************************)
(* Results of a call                                                       *)
(***************************************************************************)
Index(k) == [kind |-> "index", val |-> k, err |-> ""]
NaN == [kind |-> "nan", val |-> -1, err |-> ""]
Raise(e) == [kind |-> "raise", val |-> -1, err |-> e]
Nothing == [kind |-> "none", val |-> -1, err |-> ""]

\* what complexity_delay hands back: an exception, the bare nan, or the pair
\* (delay, info); bundle holds the info dict when there is one
RetNone == [kind |-> "none", delay |-> 0, bundle |-> <<>>, err |-> ""]
RetRaise(e) == [kind |-> "raise", delay |-> 0, bundle |-> <<>>, err |-> e]
RetNaN == [kind |-> "nan", delay |-> 0, bundle |-> <<>>, err |-> ""]
RetTuple(d, info) == [kind |-> "tuple", delay |-> d, bundle |-> <<info>>, err |-> ""]

(***************************************************************************)
(* External primitives, modelled from their contracts                      *)
(***************************************************************************)
\* rise of a[i] above the higher of its two shoulders (1-based interior i)
PeakHeight(a, i) == a[i] - (IF a[i - 1] > a[i + 1] THEN a[i - 1] ELSE a[i + 1])

LocalMaxima(a) == {i \in 2..(Len(a) - 1) : a[i] > a[i - 1] /\ a[i] > a[i + 1]}

\* signal_findpeaks(a, relative_height_min=h, relative_max=True)["Peaks"]:
\* 0-based indices of the local maxima whose height is at least h of the
\* largest height, ascending
signal_findpeaks(a, h) ==
    LET P == LocalMaxima(a)
        top == IF P = {} THEN 0
               ELSE CHOOSE x \in {PeakHeight(a, i) : i \in P} :
                        \A j \in P : PeakHeight(a, j) <= x
    IN SortedSeq({i - 1 : i \in {j \in P : PeakHeight(a, j) * Scale >= h * top}})

\* signal_zerocrossings(a): 0-based indices k >= 1 at which the sign of a[k]
\* differs from the sign of a[k - 1], ascending
signal_zerocrossings(a) ==
    SortedSeq({i - 1 : i \in {j \in 2..Len(a) : Sign(a[j]) # Sign(a[j - 1])}})

\* find_closest(target, a) on a non-empty a: the element of a nearest to
\* target, the first such element on ties
find_closest(target, a) ==
    LET best == CHOOSE i \in 1..Len(a) :
                    /\ \A j \in 1..Len(a) : Abs(a[i] - target) <= Abs(a[j] - target)
                    /\ \A j \in 1..(i - 1) : Abs(a[j] - target) > Abs(a[i] - target)
    IN a[best]

\* what find_closest does on an empty array is not part of its contract:
\* it fails, or it returns a value no element equals
FindClosestOnEmpty == {"raise", "novalue"}

(***************************************************************************)
(* np.rad2deg(np.arctan(x)) at a resolution of 10 degrees                  *)
(***************************************************************************)
\* tan(d degrees) * 1000 for d = 10, 20, ..., 80
TanTable == <<176, 364, 577, 839, 1192, 1732, 2747, 5671>>

\* largest multiple of 10 degrees whose tangent is <= |x|, signed like x
ArcTanDeg(x) ==
    LET hit == {d \in 1..Len(TanTable) : TanTable[d] * Scale <= Abs(x) * 1000}
    IN Sign(x) * 10 * Cardinality(hit)

(***************************************************************************)
(* _embedding_delay_select                                                 *)
(***************************************************************************)
Algorithms == {"first local minimum (corrected)", "first local minimum",
               "first 1/e crossing", "first zero crossing",
               "closest to 40% of the slope"}

\* lines 207-211: a collection gives its first element, or nan when empty
FirstOrNaN(coll) == IF Len(coll) # 0 THEN Index(coll[1]) ELSE NaN

\* lines 202-205; fc is what find_closest does on an empty array
ClosestToSlope(mv, fc) ==
    LET slope == [i \in 1..(Len(mv) - 1) |-> Diff(mv)[i] * Len(mv)]
        slope_in_deg == [i \in 1..Len(slope) |-> ArcTanDeg(slope[i])]
    IN IF Len(slope_in_deg) = 0
       THEN IF fc = "raise" THEN Raise("ValueError") ELSE NaN
       ELSE FirstOrNaN(WhereEq(slope_in_deg, find_closest(SlopeTarget, slope_in_deg)))

\* the corrected variant with the last index taken one too far
FirstLocalMinimumCorrectedPastEnd(mv) ==
    IF Len(Diff(mv)) = 0 THEN Raise("IndexError")
    ELSE IF Diff(mv)[1] > 0 THEN Index(0)
    ELSE IF \A i \in 1..Len(Diff(mv)) : Diff(mv)[i] < 0 THEN Index(Len(mv))
    ELSE FirstOrNaN(signal_findpeaks(Neg(mv), RelHeightMin))

\* lines 180-191
FirstLocalMinimumCorrected(mv) ==
    IF Len(Diff(mv)) = 0 THEN Raise("IndexError")
    ELSE IF Diff(mv)[1] > 0 THEN Index(0)
    ELSE IF \A i \in 1..Len(Diff(mv)) : Diff(mv)[i] < 0 THEN Index(Len(mv) - 1)
    ELSE FirstOrNaN(signal_findpeaks(Neg(mv), RelHeightMin))

\* lines 192-196
FirstLocalMinimum(mv) == FirstOrNaN(signal_findpeaks(Neg(mv), RelHeightMin))

\* the 1/e crossing without the subtraction of 1/e
FirstInvECrossingNoShift(mv) == FirstOrNaN(signal_zerocrossings(mv))

\* lines 197-199
FirstInvECrossing(mv) == FirstOrNaN(signal_zerocrossings(SubConst(mv, InvE)))

\* lines 200-201
FirstZeroCrossing(mv) == FirstOrNaN(signal_zerocrossings(mv))

_embedding_delay_select(mv, alg, fc) ==
    IF alg = "first local minimum (corrected)" THEN FirstLocalMinimumCorrected(mv)
    ELSE IF alg = "first local minimum" THEN FirstLocalMinimum(mv)
    ELSE IF alg = "first 1/e crossing" THEN FirstInvECrossing(mv)
    ELSE IF alg = "first zero crossing" THEN FirstZeroCrossing(mv)
    ELSE IF alg = "closest to 40% of the slope" THEN ClosestToSlope(mv, fc)
    ELSE Raise("UnboundLocalError")

(***************************************************************************)
(* Values that may fail: [ok, v, err]                                      *)
(***************************************************************************)
Ok(v) == [ok |-> TRUE, v |-> v, err |-> ""]
Fail(e) == [ok |-> FALSE, v |-> 0, err |-> e]

\* integer square root, by bisection on lo..hi
RECURSIVE ISqrtIn(_, _, _)
ISqrtIn(x, lo, hi) ==
    IF lo >= hi THEN lo
    ELSE LET mid == (lo + hi + 1) \div 2
         IN IF mid * mid <= x THEN ISqrtIn(x, mid, hi) ELSE ISqrtIn(x, lo, mid - 1)

ISqrt(x) == ISqrtIn(x, 0, 46340)

\* np.std(a) in fixed point: sqrt(n * sum(a^2) - sum(a)^2) / n
NpStd(a) ==
    LET n == Len(a)
        V == n * SeqSum([i \in 1..n |-> a[i] * a[i]]) - SeqSum(a) * SeqSum(a)
    IN IF n = 0 THEN 0 ELSE ISqrt(V * Scale * Scale) \div n

(***************************************************************************)
(* External collaborators of the metric evaluators, from their contracts   *)
(***************************************************************************)
\* number of points complexity_embedding(a, delay, dimension) yields
EmbeddedCount(a, dly, dim) == Len(a) - (dim - 1) * dly

\* complexity_embedding: point i is <<a[i], a[i + delay], ...>>; it fails when
\* the delay is not positive or no point is left
complexity_embedding(a, dly, dim) ==
    IF dly <= 0 \/ dim <= 0 \/ EmbeddedCount(a, dly, dim) <= 0 THEN Fail("ValueError")
    ELSE Ok([i \in 1..EmbeddedCount(a, dly, dim) |->
                [j \in 1..dim |-> a[i + (j - 1) * dly]]])

\* signal_autocor(a): the full autocorrelation function, lags 0..len(a)-1,
\* normalised by the value at lag 0; element lag + 1 holds lag `lag`
AutocorRaw(a, lag) == SeqSum([i \in 1..(Len(a) - lag) |-> a[i] * a[i + lag]])

AutocorAtLag(a, lag) ==
    IF AutocorRaw(a, 0) = 0 THEN 0
    ELSE (Scale * AutocorRaw(a, lag)) \div AutocorRaw(a, 0)

signal_autocor(a) == [i \in 1..Len(a) |-> AutocorAtLag(a, i - 1)]

\* mutual_information(x, y, normalized=True): a scalar in [0, 1] determined by
\* the two columns; here the share of positions at which they agree
mutual_information(x, y) ==
    (Scale * Cardinality({i \in 1..Len(x) : x[i] = y[i]})) \div Len(x)

(***************************************************************************)
(* Internals for the C-C method                                            *)
(***************************************************************************)
\* sup-norm distance of two embedded points, in fixed point
SupNorm(p, q) ==
    LET d == {Abs(p[j] - q[j]) : j \in 1..Len(p)}
    IN Scale * (CHOOSE x \in d : \A y \in d : y <= x)

\* lines 298-301: the unique pairs i < j of range(0, M), counted when
\* np.heaviside(r - diff, 1) is 1
PairsWithin(pts, r) ==
    Cardinality({pr \in (1..Len(pts)) \X (1..Len(pts)) :
                    pr[1] < pr[2] /\ r - SupNorm(pts[pr[1]], pts[pr[2]]) >= 0})

\* lines 284-306
_embedding_delay_cc_integral(a, dim, dly, r) ==
    LET embedded == complexity_embedding(a, dly, dim)
        M == Len(embedded.v)
    IN IF ~embedded.ok THEN Fail(embedded.err)
       ELSE IF M * (M - 1) = 0 THEN Fail("ZeroDivisionError")
       ELSE Ok((2 * Scale * PairsWithin(embedded.v, r)) \div (M * (M - 1)))

\* x ** n in fixed point, n >= 1
RECURSIVE PowFP(_, _)
PowFP(x, n) == IF n <= 1 THEN x ELSE (x * PowFP(x, n - 1)) \div Scale

\* signal[i - 1 :: delay]
SubSeries(a, i, dly) ==
    IF i > Len(a) THEN <<>>
    ELSE [k \in 1..(((Len(a) - i) \div dly) + 1) |-> a[i + (k - 1) * dly]]

\* lines 316-320: the sum over the sub-series i..delay
RECURSIVE StatisticSum(_, _, _, _, _)
StatisticSum(a, dim, dly, r, i) ==
    IF i > dly THEN Ok(0)
    ELSE LET sub == _embedding_delay_cc_integral(SubSeries(a, i, dly), dim, dly, r)
             whole == _embedding_delay_cc_integral(a, 1, dly, r)
             rest == StatisticSum(a, dim, dly, r, i + 1)
         IN IF ~sub.ok THEN sub
            ELSE IF ~whole.ok THEN whole
            ELSE IF ~rest.ok THEN rest
            ELSE Ok((sub.v - PowFP(whole.v, dim)) + rest.v)

\* lines 309-322
_embedding_delay_cc_statistic(a, dim, dly, r) ==
    LET statistic == StatisticSum(a, dim, dly, r, 1)
    IN IF ~statistic.ok THEN statistic
       ELSE IF dly = 0 THEN Fail("ZeroDivisionError")
       ELSE Ok(statistic.v \div dly)

\* lines 325-334; np.max of an empty array fails
_embedding_delay_cc_deviation(a, dly, dim, rv) ==
    LET stat(i) == _embedding_delay_cc_statistic(a, dim, dly, rv[i])
        bad == {i \in 1..Len(rv) : ~stat(i).ok}
        deviations == {stat(i).v : i \in 1..Len(rv)}
    IN IF bad # {} THEN stat(CHOOSE i \in bad : \A j \in bad : i <= j)
       ELSE IF Len(rv) = 0 THEN Fail("ValueError")
       ELSE Ok((CHOOSE x \in deviations : \A y \in deviations : y <= x)
               - (CHOOSE x \in deviations : \A y \in deviations : x <= y))

(***************************************************************************)
(* _embedding_delay_metric                                                 *)
(***************************************************************************)
\* the defaults of the signature, lines 220-221
DefaultDimensions == <<2, 3, 4, 5>>
DefaultRVals == <<Scale \div 2, Scale, (3 * Scale) \div 2, 2 * Scale>>
\* the divisor of line 254
CCNormalization == 4

\* the first failure of f(1), ..., f(n) in order, or the sequence of values
FirstFailOrAll(res) ==
    LET bad == {i \in 1..Len(res) : ~res[i].ok}
    IN IF bad # {} THEN Fail(res[CHOOSE i \in bad : \A j \in bad : i <= j].err)
       ELSE Ok([i \in 1..Len(res) |-> res[i].v])

\* lines 231-232: values[: len(tau_sequence)]
MetricAutocorrelation(sig, taus) ==
    LET values == signal_autocor(sig)
    IN Ok(SubSeq(values, 1, IF Len(taus) < Len(values) THEN Len(taus) ELSE Len(values)))

\* lines 241-254, one candidate delay t
CorrelationIntegralAt(sig, t, dims, rs) ==
    LET devs == FirstFailOrAll([j \in 1..Len(dims) |->
                    _embedding_delay_cc_deviation(sig, t, dims[j], rs)])
    IN IF ~devs.ok THEN devs ELSE Ok(SeqSum(devs.v) \div CCNormalization)

\* lines 235-254
MetricCorrelationIntegral(sig, taus, dims, rv) ==
    LET rs == [i \in 1..Len(rv) |-> (rv[i] * NpStd(sig)) \div Scale]
    IN FirstFailOrAll([i \in 1..Len(taus) |->
                          CorrelationIntegralAt(sig, taus[i], dims, rs)])

\* lines 261-265
MutualInformationAt(sig, t) ==
    LET embedded == complexity_embedding(sig, t, 2)
    IN IF ~embedded.ok THEN embedded
       ELSE Ok(mutual_information([i \in 1..Len(embedded.v) |-> embedded.v[i][1]],
                                  [i \in 1..Len(embedded.v) |-> embedded.v[i][2]]))

\* lines 261, 266-274: the distance of <<x, y>> to <<x, x>> is |y - x|
DisplacementAt(sig, t) ==
    LET embedded == complexity_embedding(sig, t, 2)
    IN IF ~embedded.ok THEN embedded
       ELSE Ok((Scale * SeqSum([i \in 1..Len(embedded.v) |->
                                   Abs(embedded.v[i][2] - embedded.v[i][1])]))
               \div Len(embedded.v))

\* lines 256-274
MetricEmbedded(sig, taus, met) ==
    FirstFailOrAll([i \in 1..Len(taus) |->
        IF met = "Mutual Information" THEN MutualInformationAt(sig, taus[i])
        ELSE IF met = "Displacement" THEN DisplacementAt(sig, taus[i])
        ELSE LET embedded == complexity_embedding(sig, taus[i], 2)
             IN IF ~embedded.ok THEN embedded ELSE Ok(0)])

_embedding_delay_metric(sig, taus, met, dims, rv) ==
    IF met = "Autocorrelation" THEN MetricAutocorrelation(sig, taus)
    ELSE IF met = "Correlation Integral" THEN MetricCorrelationIntegral(sig, taus, dims, rv)
    ELSE MetricEmbedded(sig, taus, met)

(***************************************************************************)
(* complexity_delay                                                        *)
(***************************************************************************)
UpperChars == <<"A", "B", "C", "D", "E", "F", "G", "H", "I", "J", "K", "L", "M",
                "N", "O", "P", "Q", "R", "S", "T", "U", "V", "W", "X", "Y", "Z">>
LowerChars == <<"a", "b", "c", "d", "e", "f", "g", "h", "i", "j", "k", "l", "m",
                "n", "o", "p", "q", "r", "s", "t", "u", "v", "w", "x", "y", "z">>

\* str.lower(), a string being the sequence of its characters
LowerChar(c) ==
    IF \E i \in 1..Len(UpperChars) : UpperChars[i] = c
    THEN LowerChars[CHOOSE i \in 1..Len(UpperChars) : UpperChars[i] = c]
    ELSE c

Lower(str) == [i \in 1..Len(str) |-> LowerChar(str[i])]

\* the method names of lines 119-135
NamesFraser == {<<"f", "r", "a", "s", "e", "r">>,
                <<"f", "r", "a", "s", "e", "r", "1", "9", "8", "6">>,
                <<"t", "d", "m", "i">>}
NamesTheiler == {<<"t", "h", "e", "i", "l", "e", "r">>,
                 <<"t", "h", "e", "i", "l", "e", "r", "1", "9", "9", "0">>}
NamesCasdagli == {<<"c", "a", "s", "d", "a", "g", "l", "i">>,
                  <<"c", "a", "s", "d", "a", "g", "l", "i", "1", "9", "9", "1">>}
NamesRosenstein == {<<"r", "o", "s", "e", "n", "s", "t", "e", "i", "n">>,
                    <<"r", "o", "s", "e", "n", "s", "t", "e", "i", "n", "1", "9", "9", "3">>,
                    <<"a", "d", "f", "d">>}
NamesKim == {<<"k", "i", "m", "1", "9", "9", "9">>, <<"c", "c">>}

\* algorithm=None
None == "None"

\* lines 112-115: np.arange(1, delay_max + 1) or np.array(delay_max)
IntDelay(n) == [int |-> TRUE, n |-> n, list |-> <<>>]
ListDelay(l) == [int |-> FALSE, n |-> 0, list |-> l]

TauSequence(dm) == IF dm.int THEN [i \in 1..dm.n |-> i] ELSE dm.list

\* lines 118-140: [ok, metric, algorithm] for a lower-cased name m and the
\* caller's algorithm alg
Resolved(met, alg, default) ==
    [ok |-> TRUE, metric |-> met, algorithm |-> IF alg = None THEN default ELSE alg]

ResolveMethod(m, alg) ==
    IF m \in NamesFraser THEN Resolved("Mutual Information", alg, "first local minimum")
    ELSE IF m \in NamesTheiler THEN Resolved("Autocorrelation", alg, "first 1/e crossing")
    ELSE IF m \in NamesCasdagli THEN Resolved("Autocorrelation", alg, "first zero crossing")
    ELSE IF m \in NamesRosenstein
         THEN Resolved("Displacement", alg, "closest to 40% of the slope")
    ELSE IF m \in NamesKim THEN Resolved("Correlation Integral", alg, "first local minimum")
    ELSE [ok |-> FALSE, metric |-> "", algorithm |-> alg]

\* the method name used as the caller wrote it
LowerMethodSkipped(str) == str

\* line 118
LowerMethod(str) == Lower(str)

\* lines 111-140
Resolve ==
    /\ pc = "start"
    /\ tau_sequence' = TauSequence(delay_max)
    /\ method' = LowerMethod(args.method)
    /\ LET r == ResolveMethod(method', args.algorithm)
       IN /\ metric' = r.metric
          /\ algorithm' = r.algorithm
          /\ IF r.ok
             THEN pc' = "metric" /\ ret' = ret
             ELSE pc' = "done" /\ ret' = RetRaise("ValueError: 'method' not recognized")
    /\ UNCHANGED <<args, signal, delay_max, metric_values, optimal, warned, calls,
                   dimension, delay, r_vals, deviation,
                   dimensions, radius, integral>>

\* lines 142-143: the keyword arguments are not handed on
GetMetric ==
    /\ pc = "metric"
    /\ calls' = Append(calls, "_embedding_delay_metric")
    /\ LET values == _embedding_delay_metric(signal, tau_sequence, metric,
                                             DefaultDimensions, DefaultRVals)
       IN IF values.ok
          THEN metric_values' = values.v /\ pc' = "select" /\ ret' = ret
          ELSE metric_values' = metric_values /\ pc' = "done" /\ ret' = RetRaise(values.err)
    /\ UNCHANGED <<args, signal, delay_max, method, algorithm, tau_sequence, metric,
                   optimal, warned, dimension, delay, r_vals, deviation,
                   dimensions, radius, integral>>

\* lines 154-172 (show is False)
Package(opt, taus, mv, alg, met, m) ==
    IF opt.val + 1 > Len(taus) THEN RetRaise("IndexError")
    ELSE RetTuple(taus[opt.val + 1],
                  [Values |-> taus, Scores |-> mv, Algorithm |-> alg,
                   Metric |-> met, Method |-> m])

\* lines 145-172
GetOptimal ==
    /\ pc = "select"
    /\ calls' = Append(calls, "_embedding_delay_select")
    /\ \E fc \in FindClosestOnEmpty :
           optimal' = _embedding_delay_select(metric_values, algorithm, fc)
    /\ warned' = (optimal'.kind = "nan")
    /\ ret' = IF optimal'.kind = "raise" THEN RetRaise(optimal'.err)
              ELSE IF optimal'.kind = "nan" THEN RetNaN
              ELSE Package(optimal', tau_sequence, metric_values, algorithm, metric, method)
    /\ pc' = "done"
    /\ UNCHANGED <<args, signal, delay_max, method, algorithm, tau_sequence, metric,
                   metric_values, dimension, delay, r_vals, deviation,
                   dimensions, radius, integral>>

(***************************************************************************)
(* Spec: complexity_delay on drawn arguments                               *)
(***************************************************************************)
\* longest signal drawn exhaustively
MaxSigLen == 4
\* largest integer delay_max drawn
MaxDelay == 4

SignalVals == {-1, 1}

\* every signal of the two longest lengths, and two long enough for the
\* C-C method to embed in dimension 5
Signals ==
    SeqsOf(SignalVals, MaxSigLen - 1, MaxSigLen)
    \cup {<<1, -1, -1, 1, 1, -1>>, <<1, 1, -1, 1, -1, -1, 1>>}

DelaySpecs ==
    {IntDelay(n) : n \in (-1)..MaxDelay}
    \cup {ListDelay(l) : l \in {<<>>, <<2, 3>>, <<3, 1>>, <<0, 1>>}}

MethodNames ==
    NamesFraser \cup NamesTheiler \cup NamesCasdagli \cup NamesRosenstein \cup NamesKim
    \cup {<<"T", "D", "M", "I">>, <<"C", "a", "s", "d", "a", "g", "l", "i">>,
          <<"T", "h", "e", "i", "l", "e", "r", "1", "9", "9", "0">>}
    \cup {<<"k", "i", "m">>, <<"f", "r", "a", "s", "e", "r", "8", "6">>}

\* line 20: **kwargs, the keyword overrides a caller may add; none, or a
\* dimension set and a radius set other than the defaults
NoKwargs == [supplied |-> FALSE, dimensions |-> <<>>, r_vals |-> <<>>]

Overrides == [supplied |-> TRUE, dimensions |-> <<2, 3>>, r_vals |-> <<Scale, 2 * Scale>>]

\* the overrides are drawn with the names of the C-C method
KwargsFor(m) == IF m \in NamesKim THEN {NoKwargs, Overrides} ELSE {NoKwargs}

NoArgs == [method |-> <<>>, algorithm |-> None, kwargs |-> NoKwargs]

Init ==
    /\ pc = "start"
    /\ \E m \in MethodNames : \E a \in {None} \cup Algorithms : \E k \in KwargsFor(m) :
           args = [method |-> m, algorithm |-> a, kwargs |-> k]
    /\ signal \in Signals
    /\ delay_max \in DelaySpecs
    /\ method = args.method
    /\ algorithm = args.algorithm
    /\ tau_sequence = <<>>
    /\ metric = ""
    /\ metric_values = <<>>
    /\ optimal = Nothing
    /\ ret = RetNone
    /\ warned = FALSE
    /\ calls = <<>>
    /\ dimension = 0
    /\ delay = 0
    /\ r_vals = <<>>
    /\ deviation = Ok(0)
    /\ dimensions = <<>>
    /\ radius = 0
    /\ integral = Ok(0)

Next == Resolve \/ GetMetric \/ GetOptimal

Spec == Init /\ [][Next]_vars

(***************************************************************************)
(* SpecSelect: the selector on drawn score sequences                       *)
(***************************************************************************)
ScoreVals == {-2 * Scale, -Scale, 0, Scale, 2 * Scale}

ScoreSeqs == SeqsOf(ScoreVals, 1, MaxScoreLen)

InitSelect ==
    /\ pc = "select"
    /\ metric_values \in ScoreSeqs
    /\ algorithm \in Algorithms \cup {"unknown"}
    /\ optimal = Nothing
    /\ args = NoArgs
    /\ signal = <<>>
    /\ delay_max = IntDelay(0)
    /\ method = <<>>
    /\ tau_sequence = <<>>
    /\ metric = ""
    /\ ret = RetNone
    /\ warned = FALSE
    /\ calls = <<>>
    /\ dimension = 0
    /\ delay = 0
    /\ r_vals = <<>>
    /\ deviation = Ok(0)
    /\ dimensions = <<>>
    /\ radius = 0
    /\ integral = Ok(0)

Select ==
    /\ pc = "select"
    /\ \E fc \in FindClosestOnEmpty :
           optimal' = _embedding_delay_select(metric_values, algorithm, fc)
    /\ pc' = "selected"
    /\ UNCHANGED <<args, signal, delay_max, method, algorithm, tau_sequence, metric,
                   metric_values, ret, warned, calls, dimension, delay, r_vals, deviation,
                   dimensions, radius, integral>>

NextSelect == Select

SpecSelect == InitSelect /\ [][NextSelect]_vars

(***************************************************************************)
(* SpecCC: _embedding_delay_cc_deviation on drawn arguments                *)
(***************************************************************************)
\* longest signal, largest dimension, largest delay and most radii drawn
MaxCCLen == 5
MaxCCDim == 3
MaxCCDelay == 2
MaxRadii == 2

CCSignalVals == {0, 1, 2}

\* radii in fixed point
RadiusVals == {0, Scale, 2 * Scale}

InitCC ==
    /\ pc = "deviation"
    /\ signal \in SeqsOf(CCSignalVals, 1, MaxCCLen)
    /\ dimension \in 1..MaxCCDim
    /\ delay \in 1..MaxCCDelay
    /\ r_vals \in SeqsOf(RadiusVals, 0, MaxRadii)
    /\ deviation = Ok(0)
    /\ dimensions = <<>>
    /\ radius = 0
    /\ integral = Ok(0)
    /\ args = NoArgs
    /\ delay_max = IntDelay(0)
    /\ method = <<>>
    /\ algorithm = None
    /\ tau_sequence = <<>>
    /\ metric = ""
    /\ metric_values = <<>>
    /\ optimal = Nothing
    /\ ret = RetNone
    /\ warned = FALSE
    /\ calls = <<>>

Deviation ==
    /\ pc = "deviation"
    /\ deviation' = _embedding_delay_cc_deviation(signal, delay, dimension, r_vals)
    /\ pc' = "deviated"
    /\ UNCHANGED <<args, signal, delay_max, method, algorithm, tau_sequence, metric,
                   metric_values, optimal, ret, warned, calls, dimension, delay, r_vals,
                   dimensions, radius, integral>>

NextCC == Deviation

SpecCC == InitCC /\ [][NextCC]_vars

(***************************************************************************)
(* SpecMetric: _embedding_delay_metric with metric="Correlation Integral"  *)
(* on drawn dimension and radius sets                                      *)
(***************************************************************************)
\* length of the signals drawn exhaustively
MaxMetricLen == 4

\* every signal of that length, and three long enough to embed in
\* dimension 5 at delay 1 or in dimension 2 at delay 2
MetricSignals ==
    SeqsOf(CCSignalVals, MaxMetricLen, MaxMetricLen)
    \cup {<<0, 2, 1, 1, 0, 2>>, <<0, 1, 2, 0, 1, 1, 2>>, <<0, 1, 2, 0, 1, 1, 2, 0>>}

\* the default dimension set, and sets of one, two and three dimensions
DimensionSets == {DefaultDimensions, <<2>>, <<2, 3>>, <<1, 2, 3>>}

\* radius multipliers: the default and a shorter set
RadiusSets == {DefaultRVals, <<Scale, 2 * Scale>>}

InitMetric ==
    /\ pc = "evaluate"
    /\ signal \in MetricSignals
    /\ tau_sequence \in {<<1>>, <<1, 2>>}
    /\ metric = "Correlation Integral"
    /\ dimensions \in DimensionSets
    /\ r_vals \in RadiusSets
    /\ metric_values = <<>>
    /\ ret = RetNone
    /\ args = NoArgs
    /\ delay_max = IntDelay(0)
    /\ method = <<>>
    /\ algorithm = None
    /\ optimal = Nothing
    /\ warned = FALSE
    /\ calls = <<>>
    /\ dimension = 0
    /\ delay = 0
    /\ deviation = Ok(0)
    /\ radius = 0
    /\ integral = Ok(0)

\* lines 216-276, called with the drawn dimensions and r_vals
EvaluateMetric ==
    /\ pc = "evaluate"
    /\ LET values == _embedding_delay_metric(signal, tau_sequence, metric,
                                             dimensions, r_vals)
       IN IF values.ok
          THEN metric_values' = values.v /\ ret' = ret
          ELSE metric_values' = metric_values /\ ret' = RetRaise(values.err)
    /\ pc' = "evaluated"
    /\ UNCHANGED <<args, signal, delay_max, method, algorithm, tau_sequence, metric,
                   optimal, warned, calls, dimension, delay, r_vals, deviation,
                   dimensions, radius, integral>>

NextMetric == EvaluateMetric

SpecMetric == InitMetric /\ [][NextMetric]_vars

(***************************************************************************)
(* SpecIntegral: _embedding_delay_cc_integral on drawn arguments           *)
(***************************************************************************)
InitIntegral ==
    /\ pc = "integrate"
    /\ signal \in SeqsOf(CCSignalVals, 1, MaxCCLen)
    /\ dimension \in 1..MaxCCDim
    /\ delay \in 1..MaxCCDelay
    /\ radius \in RadiusVals
    /\ integral = Ok(0)
    /\ args = NoArgs
    /\ delay_max = IntDelay(0)
    /\ method = <<>>
    /\ algorithm = None
    /\ tau_sequence = <<>>
    /\ metric = ""
    /\ metric_values = <<>>
    /\ optimal = Nothing
    /\ ret = RetNone
    /\ warned = FALSE
    /\ calls = <<>>
    /\ r_vals = <<>>
    /\ deviation = Ok(0)
    /\ dimensions = <<>>

\* lines 284-306
Integral ==
    /\ pc = "integrate"
    /\ integral' = _embedding_delay_cc_integral(signal, dimension, delay, radius)
    /\ pc' = "integrated"
    /\ UNCHANGED <<args, signal, delay_max, method, algorithm, tau_sequence, metric,
                   metric_values, optimal, ret, warned, calls, dimension, delay, r_vals,
                   deviation, dimensions, radius>>

NextIntegral == Integral

SpecIntegral == InitIntegral /\ [][NextIntegral]_vars

(***************************************************************************)
(* Claims about complexity_delay, under Spec                               *)
(***************************************************************************)
\* a candidate-delay specification that yields no, or a non-positive, delay
Malformed(dm) ==
    IF dm.int THEN dm.n <= 0
    ELSE Len(dm.list) = 0 \/ \E i \in 1..Len(dm.list) : dm.list[i] <= 0

MetricCalled == \E i \in 1..Len(calls) : calls[i] = "_embedding_delay_metric"

\* C1: when the selector reports "not found", complexity_delay raises no
\* exception, warns, and returns the sentinel together with the diagnostics
\* bundle (Values, Scores, Algorithm, Metric) holding the full score sequence.
C1_NotFoundReturnsBundle ==
    (pc = "done" /\ optimal.kind = "nan" /\ ~Malformed(delay_max)) =>
        /\ ret.kind # "raise"
        /\ warned
        /\ Len(ret.bundle) = 1
        /\ ret.bundle[1].Scores = metric_values
        /\ ret.bundle[1].Values = tau_sequence
        /\ ret.bundle[1].Algorithm = algorithm
        /\ ret.bundle[1].Metric = metric

\* C2: for every supported method and every non-empty candidate delay
\* sequence, the score sequence _embedding_delay_metric produces, and the
\* "Scores" returned, are exactly as long as the candidate delay sequence.
C2_ScoresAsLongAsValues ==
    (pc \in {"select", "done"} /\ MetricCalled /\ ret.kind # "raise"
     /\ Len(tau_sequence) > 0) =>
        /\ Len(metric_values) = Len(tau_sequence)
        /\ ret.kind = "tuple" =>
               Len(ret.bundle[1].Scores) = Len(ret.bundle[1].Values)

\* the closed table of the claim: lower-case name, metric, default algorithm
C3_Entry(name, met, alg) == [name |-> name, metric |-> met, algorithm |-> alg]

C3_Table ==
    {C3_Entry(n, "Mutual Information", "first local minimum") :
        n \in {<<"f", "r", "a", "s", "e", "r">>,
               <<"f", "r", "a", "s", "e", "r", "1", "9", "8", "6">>,
               <<"t", "d", "m", "i">>}}
    \cup {C3_Entry(n, "Autocorrelation", "first 1/e crossing") :
        n \in {<<"t", "h", "e", "i", "l", "e", "r">>,
               <<"t", "h", "e", "i", "l", "e", "r", "1", "9", "9", "0">>}}
    \cup {C3_Entry(n, "Autocorrelation", "first zero crossing") :
        n \in {<<"c", "a", "s", "d", "a", "g", "l", "i">>,
               <<"c", "a", "s", "d", "a", "g", "l", "i", "1", "9", "9", "1">>}}
    \cup {C3_Entry(n, "Displacement", "closest to 40% of the slope") :
        n \in {<<"r", "o", "s", "e", "n", "s", "t", "e", "i", "n">>,
               <<"r", "o", "s", "e", "n", "s", "t", "e", "i", "n", "1", "9", "9", "3">>,
               <<"a", "d", "f", "d">>}}
    \cup {C3_Entry(n, "Correlation Integral", "first local minimum") :
        n \in {<<"k", "i", "m", "1", "9", "9", "9">>, <<"c", "c">>}}

EqIgnoreCase(a, b) ==
    Len(a) = Len(b) /\ \A i \in 1..Len(a) : LowerChar(a[i]) = LowerChar(b[i])

C3_Matches == {e \in C3_Table : EqIgnoreCase(args.method, e.name)}

\* C3: once the method is resolved, a name that matches the table without
\* regard to case has the table's metric and, as algorithm, the caller's
\* algorithm when one was given, else the table's default; any other name has
\* failed with the method error, with no evaluator or selector called and
\* nothing returned.
C3_MethodResolution ==
    pc # "start" =>
        IF C3_Matches # {}
        THEN \A e \in C3_Matches :
                /\ metric = e.metric
                /\ algorithm = IF args.algorithm = None THEN e.algorithm
                               ELSE args.algorithm
                /\ pc = "metric" \/ MetricCalled
        ELSE /\ pc = "done"
             /\ ret = RetRaise("ValueError: 'method' not recognized")
             /\ calls = <<>>
             /\ metric_values = <<>>
             /\ optimal = Nothing
             /\ ~warned

\* a mixed-case synonym resolved, with the caller's algorithm kept
C3_Witness ==
    /\ pc = "done"
    /\ args.method = <<"T", "D", "M", "I">>
    /\ args.algorithm = "first zero crossing"
    /\ metric = "Mutual Information"
    /\ algorithm = "first zero crossing"
    /\ ret.kind = "tuple"

\* C4: a malformed candidate-delay specification (a non-positive integer, an
\* explicit set holding a non-positive value, an empty set) is rejected with
\* an error before any metric evaluator is invoked.
C4_MalformedDelaysRejected ==
    Malformed(delay_max) =>
        /\ ~MetricCalled
        /\ pc = "done" => ret.kind = "raise"

\* the metric of the claim at one candidate delay t
MetricAtDelay(sig, met, t) ==
    IF met = "Autocorrelation" THEN AutocorAtLag(sig, t)
    ELSE IF met = "Mutual Information" THEN MutualInformationAt(sig, t).v
    ELSE IF met = "Displacement" THEN DisplacementAt(sig, t).v
    ELSE CorrelationIntegralAt(sig, t, DefaultDimensions,
             [i \in 1..Len(DefaultRVals) |-> (DefaultRVals[i] * NpStd(sig)) \div Scale]).v

\* C10: on success the delay returned is the candidate at the selected index
\* k, and the score at index k is the metric evaluated at that delay, for
\* every metric (Autocorrelation with candidates 1..N included).
C10_ScoreIsMetricAtReturnedDelay ==
    (pc = "done" /\ ret.kind = "tuple" /\ ~Malformed(delay_max)) =>
        /\ ret.delay = tau_sequence[optimal.val + 1]
        /\ metric_values[optimal.val + 1] = MetricAtDelay(signal, metric, ret.delay)

\* on success the index the selector gave is looked up in tau_sequence
TauLookupValid ==
    (pc = "done" /\ optimal.kind = "index") =>
        /\ ret.kind = "tuple"
        /\ ret.delay = tau_sequence[optimal.val + 1]

(***************************************************************************)
(* Claims about _embedding_delay_select, under SpecSelect                  *)
(***************************************************************************)
\* C5: for every algorithm of the enumeration and every score sequence the
\* selector does not raise: it gives the not-found sentinel or an index.  (A
\* failure inside find_closest itself, on an empty array, is not counted.)
C5_SelectNeverRaises ==
    (pc = "selected" /\ algorithm \in Algorithms) =>
        \/ optimal.kind \in {"nan", "index"}
        \/ optimal = Raise("ValueError")

\* C6: an index the selector returns is an index of the score sequence.
C6_IndexInRange ==
    (pc = "selected" /\ algorithm \in Algorithms /\ optimal.kind = "index") =>
        (0 <= optimal.val /\ optimal.val < Len(metric_values))

\* the last index returned for a strictly decreasing sequence of full length
C6_Witness ==
    /\ pc = "selected"
    /\ algorithm = "first local minimum (corrected)"
    /\ Len(metric_values) = MaxScoreLen
    /\ optimal = Index(Len(metric_values) - 1)

FirstDiffPositive(mv) == Len(mv) >= 2 /\ mv[2] - mv[1] > 0

StrictlyDecreasing(mv) == \A i \in 1..(Len(mv) - 1) : mv[i + 1] < mv[i]

\* C7: with "first local minimum (corrected)" a sequence whose first
\* difference is positive gives index 0, a strictly decreasing sequence of
\* length N gives N - 1, and every other sequence gives what the plain
\* "first local minimum" gives.
C7_CorrectedShapes ==
    (pc = "selected" /\ algorithm = "first local minimum (corrected)"
     /\ Len(metric_values) >= 1) =>
        /\ FirstDiffPositive(metric_values) => optimal = Index(0)
        /\ StrictlyDecreasing(metric_values) =>
               optimal = Index(Len(metric_values) - 1)
        /\ (~FirstDiffPositive(metric_values) /\ ~StrictlyDecreasing(metric_values)) =>
               optimal = FirstLocalMinimum(metric_values)

\* the same, for the sequences that have a first difference
CorrectedShapesFromTwo ==
    (pc = "selected" /\ algorithm = "first local minimum (corrected)"
     /\ Len(metric_values) >= 2) =>
        /\ FirstDiffPositive(metric_values) => optimal = Index(0)
        /\ StrictlyDecreasing(metric_values) =>
               optimal = Index(Len(metric_values) - 1)
        /\ (~FirstDiffPositive(metric_values) /\ ~StrictlyDecreasing(metric_values)) =>
               optimal = FirstLocalMinimum(metric_values)

\* 0-based indices k >= 1 at which the sign differs from the one before
SignChanges(mv) == {k \in 1..(Len(mv) - 1) : Sign(mv[k + 1]) # Sign(mv[k])}

FirstSignChange(mv) ==
    IF SignChanges(mv) = {} THEN NaN
    ELSE Index(CHOOSE k \in SignChanges(mv) : \A j \in SignChanges(mv) : k <= j)

AllRadiiEqual(rv) == \A i, j \in 1..Len(rv) : rv[i] = rv[j]

\* C9: for every non-empty radius set and every (signal, dimension, delay)
\* the deviation is a value >= 0, and it is 0 when all radii are equal.
C9_DeviationNonNegative ==
    (pc = "deviated" /\ Len(r_vals) >= 1) =>
        /\ deviation.ok
        /\ deviation.v >= 0
        /\ AllRadiiEqual(r_vals) => deviation.v = 0

\* the same, for the arguments on which the statistic is defined
DeviationNonNegativeWhereDefined ==
    (pc = "deviated" /\ Len(r_vals) >= 1 /\ deviation.ok) =>
        /\ deviation.v >= 0
        /\ AllRadiiEqual(r_vals) => deviation.v = 0

(***************************************************************************)
(* Claims about the Correlation Integral metric, under SpecMetric and Spec *)
(***************************************************************************)
\* the deviations at delay t summed over the dimension set dims and divided
\* by the number of dimensions, the radii being rv times the signal's
\* standard deviation
MeanDeviation(sig, t, dims, rv) ==
    LET rs == [i \in 1..Len(rv) |-> (rv[i] * NpStd(sig)) \div Scale]
        devs == [j \in 1..Len(dims) |->
                    _embedding_delay_cc_deviation(sig, t, dims[j], rs).v]
    IN SeqSum(devs) \div Len(dims)

\* C11: for a non-empty dimension set, the default or any other, the
\* Correlation Integral score of every candidate delay is the sum over the
\* dimension set of the deviations at that delay, divided by the number of
\* dimensions in the set, with the radii scaled by the signal's standard
\* deviation.
C11_ScoreIsMeanDeviation ==
    (pc = "evaluated" /\ ret.kind # "raise" /\ Len(dimensions) >= 1) =>
        /\ Len(metric_values) = Len(tau_sequence)
        /\ \A i \in 1..Len(tau_sequence) :
               metric_values[i] = MeanDeviation(signal, tau_sequence[i], dimensions, r_vals)

\* the same for the dimension sets of four dimensions, the default among them
ScoreIsMeanDeviationOfFour ==
    (pc = "evaluated" /\ ret.kind # "raise" /\ Len(dimensions) = Len(DefaultDimensions)) =>
        /\ Len(metric_values) = Len(tau_sequence)
        /\ \A i \in 1..Len(tau_sequence) :
               metric_values[i] = MeanDeviation(signal, tau_sequence[i], dimensions, r_vals)

\* a state where the default set gave a score other than 0
ScoreOfFourReached ==
    ~(pc = "evaluated" /\ ret.kind # "raise" /\ dimensions = DefaultDimensions
      /\ \E i \in 1..Len(metric_values) : metric_values[i] # 0)

\* the part of C11 about complexity_delay, under Spec: the dimension and
\* radius sets a caller adds as keyword overrides are the ones the scores
\* are computed with
CallerOverridesUsed ==
    (pc = "select" /\ metric = "Correlation Integral" /\ args.kwargs.supplied) =>
        \A i \in 1..Len(tau_sequence) :
            metric_values[i] = MeanDeviation(signal, tau_sequence[i],
                                             args.kwargs.dimensions, args.kwargs.r_vals)

\* without overrides the scores are those of the default sets
DefaultSetsUsed ==
    (pc = "select" /\ metric = "Correlation Integral" /\ ~args.kwargs.supplied) =>
        \A i \in 1..Len(tau_sequence) :
            metric_values[i] = MeanDeviation(signal, tau_sequence[i],
                                             DefaultDimensions, DefaultRVals)

(***************************************************************************)
(* Claims about _embedding_delay_cc_integral, under SpecIntegral           *)
(***************************************************************************)
\* the unordered pairs of M points, as the sets of two indices
UnorderedPairs(M) == {s \in SUBSET (1..M) : Cardinality(s) = 2}

\* the unordered pairs of pts at Chebyshev distance <= r
PairsInside(pts, r) ==
    {s \in UnorderedPairs(Len(pts)) :
        \E i, j \in s : i # j /\ SupNorm(pts[i], pts[j]) <= r}

\* C12: over the M embedded points the integral is 2 / (M (M - 1)) times the
\* number of unordered pairs at Chebyshev distance <= r, every pair counted
\* once and a distance equal to r counted as inside; for M >= 2 it lies in
\* [0, 1], does not depend on the order of the two points of a pair and does
\* not decrease when r grows; for M < 2 it is a value too, not a raise.
C12_IntegralOverPairs ==
    LET embedded == complexity_embedding(signal, delay, dimension)
        M == Len(embedded.v)
    IN (pc = "integrated" /\ embedded.ok) =>
           /\ integral.ok
           /\ M >= 2 =>
                  /\ integral.v = (2 * Scale * Cardinality(PairsInside(embedded.v, radius)))
                                  \div (M * (M - 1))
                  /\ 0 <= integral.v /\ integral.v <= Scale
                  /\ \A i, j \in 1..M :
                         SupNorm(embedded.v[i], embedded.v[j])
                             = SupNorm(embedded.v[j], embedded.v[i])
                  /\ \A r2 \in RadiusVals :
                         r2 >= radius =>
                             _embedding_delay_cc_integral(signal, dimension, delay, r2).v
                                 >= integral.v

\* the same, for the arguments that embed to two points or more
IntegralOverPairsFromTwo ==
    LET embedded == complexity_embedding(signal, delay, dimension)
        M == Len(embedded.v)
    IN (pc = "integrated" /\ embedded.ok /\ M >= 2) =>
           /\ integral.ok
           /\ integral.v = (2 * Scale * Cardinality(PairsInside(embedded.v, radius)))
                           \div (M * (M - 1))
           /\ 0 <= integral.v /\ integral.v <= Scale
           /\ \A i, j \in 1..M :
                  SupNorm(embedded.v[i], embedded.v[j]) = SupNorm(embedded.v[j], embedded.v[i])
           /\ \A r2 \in RadiusVals :
                  r2 >= radius =>
                      _embedding_delay_cc_integral(signal, dimension, delay, r2).v
                          >= integral.v

\* a state where a pair lies at a distance equal to r and is counted
TieCountedReached ==
    LET embedded == complexity_embedding(signal, delay, dimension)
    IN ~(pc = "integrated" /\ integral.ok /\ integral.v = Scale /\ radius > 0
         /\ \E i, j \in 1..Len(embedded.v) :
                SupNorm(embedded.v[i], embedded.v[j]) = radius)

====
